---- MODULE Spec2Model ----
(***************************************************************************)
(* A model of uke-tui: the chord parser and catalog (src/src/chords.rs),   *)
(* the TUI lookup with its shared fret window (src/src/tui.rs, App) and    *)
(* the grid packer (src/src/tui.rs, combine_diagrams_grid). Of App, the     *)
(* model keeps the catalog, the input line and the diagrams; the scroll    *)
(* offsets and the help overlay, which lookup only resets, are left out.   *)
(*                                                                         *)
(* A string is a sequence of characters, a character is a one-character    *)
(* string, and an Option<T> is a sequence of length 0 (None) or 1 (Some).  *)
(* The character "E'" stands for U+00C9 and "e'" for U+00E9, a letter pair *)
(* outside ASCII that Unicode case conversion maps to each other.          *)
(***************************************************************************)
EXTENDS Integers, Sequences, FiniteSets, TLC

VARIABLES
    overflow_checks,                             \* the build: are overflow checks on
    line_name, line_tokens, line, entry,         \* Chord::load_from_file, one line
    parse_pc,
    chords, input, diagrams, status,             \* App and the run_tui loop
    lk_catalog, lk_input, lk_found,              \* the find of App::lookup, alone
    g_blocks, g_max_width, g_spacing, g_rows,    \* combine_diagrams_grid
    r_chord, r_start, r_end, r_out               \* Chord::render_range, alone

parse_vars  == <<line_name, line_tokens, line, entry, parse_pc>>
app_vars    == <<chords, input, diagrams, status>>
lookup_vars == <<lk_catalog, lk_input, lk_found>>
grid_vars   == <<g_blocks, g_max_width, g_spacing, g_rows>>
render_vars == <<r_chord, r_start, r_end, r_out>>
vars == <<overflow_checks, parse_vars, app_vars, lookup_vars, grid_vars, render_vars>>

----------------------------------------------------------------------------
(* Options, u8 arithmetic *)

None == <<>>
Some(x) == <<x>>
IsSome(o) == Len(o) = 1
Unwrap(o) == o[1]

U8_MAX == 255

\* u8 addition and subtraction: the pair <<overflowed, wrapped value>>.
\* A build with overflow checks panics where overflowed is TRUE, a build
\* without them continues with the wrapped value.
U8Add(a, b) == <<a + b > U8_MAX, (a + b) % (U8_MAX + 1)>>
U8Sub(a, b) == <<a - b < 0, (a - b) % (U8_MAX + 1)>>

Min(a, b) == IF a <= b THEN a ELSE b
Max(a, b) == IF a >= b THEN a ELSE b

----------------------------------------------------------------------------
(* Characters and strings *)

UpperAZ == <<"A","B","C","D","E","F","G","H","I","J","K","L","M",
             "N","O","P","Q","R","S","T","U","V","W","X","Y","Z">>
LowerAZ == <<"a","b","c","d","e","f","g","h","i","j","k","l","m",
             "n","o","p","q","r","s","t","u","v","w","x","y","z">>
Digits  == <<"0","1","2","3","4","5","6","7","8","9">>
WhiteSpace == {" ", "\t"}

IndexIn(c, tbl) ==
    IF \E i \in 1..Len(tbl) : tbl[i] = c
    THEN CHOOSE i \in 1..Len(tbl) : tbl[i] = c
    ELSE 0

\* u8::to_ascii_lowercase / to_ascii_uppercase on one character
ToAsciiLowercase(c) ==
    LET i == IndexIn(c, UpperAZ) IN IF i > 0 THEN LowerAZ[i] ELSE c
ToAsciiUppercase(c) ==
    LET i == IndexIn(c, LowerAZ) IN IF i > 0 THEN UpperAZ[i] ELSE c

\* char::to_uppercase / to_lowercase (Unicode) on the characters of the model
CharToUppercase(c) == IF c = "e'" THEN "E'" ELSE ToAsciiUppercase(c)
CharToLowercase(c) == IF c = "E'" THEN "e'" ELSE ToAsciiLowercase(c)

\* str::to_uppercase, str::to_lowercase
ToUppercase(s) == [i \in 1..Len(s) |-> CharToUppercase(s[i])]
ToLowercase(s) == [i \in 1..Len(s) |-> CharToLowercase(s[i])]

\* str::eq_ignore_ascii_case
EqIgnoreAsciiCase(a, b) ==
    /\ Len(a) = Len(b)
    /\ \A i \in 1..Len(a) : ToAsciiLowercase(a[i]) = ToAsciiLowercase(b[i])

\* str::starts_with
StartsWith(s, p) == Len(s) >= Len(p) /\ SubSeq(s, 1, Len(p)) = p

\* str::trim
RECURSIVE TrimStart(_)
TrimStart(s) ==
    IF s # <<>> /\ Head(s) \in WhiteSpace THEN TrimStart(Tail(s)) ELSE s
RECURSIVE TrimEnd(_)
TrimEnd(s) ==
    IF s # <<>> /\ s[Len(s)] \in WhiteSpace
    THEN TrimEnd(SubSeq(s, 1, Len(s) - 1)) ELSE s
Trim(s) == TrimEnd(TrimStart(s))

\* str::split(sep): the pieces between the separators, empty ones included
RECURSIVE SplitAcc(_, _, _)
SplitAcc(s, seps, cur) ==
    IF s = <<>> THEN <<cur>>
    ELSE IF Head(s) \in seps
         THEN <<cur>> \o SplitAcc(Tail(s), seps, <<>>)
         ELSE SplitAcc(Tail(s), seps, Append(cur, Head(s)))
Split(s, sep) == SplitAcc(s, {sep}, <<>>)

\* str::split_whitespace: the non-empty pieces between runs of whitespace
SplitWhitespace(s) == SelectSeq(SplitAcc(s, WhiteSpace, <<>>), LAMBDA p : p # <<>>)

\* str::split_once(sep): Some(<<before, after>>) at the first sep, else None
SplitOnce(s, sep) ==
    LET i == IndexIn(sep, s) IN
    IF i = 0 THEN None
    ELSE Some(<<SubSeq(s, 1, i - 1), SubSeq(s, i + 1, Len(s))>>)

\* str::parse::<u8>: an optional '+', then one or more decimal digits, the
\* value at most 255; anything else is an error (.ok() gives None)
RECURSIVE DigitsValue(_, _)
DigitsValue(ds, acc) ==
    IF ds = <<>> THEN Some(acc)
    ELSE LET d == IndexIn(Head(ds), Digits) IN
         IF d = 0 THEN None
         ELSE IF acc * 10 + (d - 1) > U8_MAX THEN None
         ELSE DigitsValue(Tail(ds), acc * 10 + (d - 1))
ParseU8(tok) ==
    LET ds == IF tok # <<>> /\ Head(tok) = "+" THEN Tail(tok) ELSE tok IN
    IF ds = <<>> THEN None ELSE DigitsValue(ds, 0)

----------------------------------------------------------------------------
(* Chord: src/src/chords.rs *)

roots_letters_first ==
    << <<"A">>, <<"B">>, <<"C">>, <<"D">>, <<"E">>, <<"F">>, <<"G">>,
       <<"A","#">>, <<"B","b">>, <<"C","#">>, <<"D","b">>, <<"D","#">>,
       <<"E","b">>, <<"F","#">>, <<"G","b">>, <<"G","#">>, <<"A","b">> >>
roots == << <<"A","#">>, <<"B","b">>, <<"C","#">>, <<"D","b">>, <<"D","#">>,
            <<"E","b">>, <<"F","#">>, <<"G","b">>, <<"G","#">>, <<"A","b">>,
            <<"A">>, <<"B">>, <<"C">>, <<"D">>, <<"E">>, <<"F">>, <<"G">> >>

\* Chord::split_name: the first root of the table, in table order, that the
\* name starts with, and the rest of the name
RECURSIVE SplitNameFrom(_, _)
SplitNameFrom(name, k) ==
    IF k > Len(roots) THEN None
    ELSE IF StartsWith(name, roots[k])
         THEN Some(<<roots[k], SubSeq(name, Len(roots[k]) + 1, Len(name))>>)
         ELSE SplitNameFrom(name, k + 1)
split_name(name) == SplitNameFrom(name, 1)

\* Chord::alias_roots
alias_roots(root) ==
    CASE root = <<"C","#">> -> << <<"D","b">> >>
      [] root = <<"D","b">> -> << <<"C","#">> >>
      [] root = <<"D","#">> -> << <<"E","b">> >>
      [] root = <<"E","b">> -> << <<"D","#">> >>
      [] root = <<"F","#">> -> << <<"G","b">> >>
      [] root = <<"G","b">> -> << <<"F","#">> >>
      [] root = <<"G","#">> -> << <<"A","b">> >>
      [] root = <<"A","b">> -> << <<"G","#">> >>
      [] root = <<"A","#">> -> << <<"B","b">> >>
      [] root = <<"B","b">> -> << <<"A","#">> >>
      [] OTHER -> <<>>

\* One fret token of Chord::from_string
FretOfToken(tok) ==
    IF EqIgnoreAsciiCase(tok, <<"X">>) THEN None ELSE ParseU8(tok)

\* Chord::from_string: Some(chord) or None
from_string(full_name, frets_str) ==
    LET name  == Trim(full_name)
        parts == SplitWhitespace(Trim(frets_str))
    IN  IF Len(parts) # 4 THEN None
        ELSE LET frets == [i \in 1..4 |-> FretOfToken(parts[i])]
                 rq    == split_name(name)
             IN  IF ~IsSome(rq) THEN None
                 ELSE LET root    == Unwrap(rq)[1]
                          quality == Unwrap(rq)[2]
                          ar      == alias_roots(root)
                      IN  Some([name |-> name,
                                frets |-> frets,
                                alias_names |-> [k \in 1..Len(ar) |-> ar[k] \o quality]])

\* The closure Chord::load_from_file applies to each line of the file
LoadLine(l) ==
    LET t == Trim(l) IN
    IF t = <<>> \/ StartsWith(t, <<"#">>) THEN None
    ELSE LET nf == SplitOnce(t, "=") IN
         IF ~IsSome(nf) THEN None
         ELSE from_string(Unwrap(nf)[1], Unwrap(nf)[2])

\* Chord::load_from_file on the lines of a file that opened
RECURSIVE load_from_file(_)
load_from_file(lines) ==
    IF lines = <<>> THEN <<>>
    ELSE LoadLine(Head(lines)) \o load_from_file(Tail(lines))

\* Chord::fret_bounds: Some(<<min, max>>) of the fretted values, the open
\* strings (0) and the muted ones (None) left out
FrettedValues(c) ==
    {Unwrap(c.frets[i]) : i \in {j \in 1..4 : IsSome(c.frets[j]) /\ Unwrap(c.frets[j]) # 0}}
SetMin(S) == CHOOSE x \in S : \A y \in S : x <= y
SetMax(S) == CHOOSE x \in S : \A y \in S : x >= y
fret_bounds(c) ==
    LET used == FrettedValues(c) IN
    IF used = {} THEN None ELSE Some(<<SetMin(used), SetMax(used)>>)

\* Chord::matches_name
matches_name_exact(c, key) ==
    c.name = key \/ \E k \in 1..Len(c.alias_names) : c.alias_names[k] = key
matches_name(c, key) ==
    IF EqIgnoreAsciiCase(c.name, key) THEN TRUE
    ELSE \E k \in 1..Len(c.alias_names) : EqIgnoreAsciiCase(c.alias_names[k], key)

\* A diagram is the sequence of its lines. A line is a formatted message
\* (a fixed text and the string put after it), the header of fret numbers,
\* the divider of dashes, or the row of one string. The columns of a header
\* or a row are those of a fret range: column k, for k in 1..count, is the
\* column of fret first + k - 1, and a row holds the set of its columns
\* that show the filled marker, the others showing the dash.
TextLine(text, arg) == [kind |-> "text", text |-> text, arg |-> arg]
EmptyLine == TextLine("", <<>>)
HeaderLine(range) == [kind |-> "header", frets |-> range]
DividerLine(n) == [kind |-> "divider", dashes |-> n]
RowLine(s, ind, range, marked) ==
    [kind |-> "row", string |-> s, ind |-> ind, cells |-> range, marked |-> marked]

\* start_fret..=end_fret: empty when start_fret > end_fret
FretRange(start, end) ==
    [first |-> start, count |-> IF start <= end THEN end - start + 1 ELSE 0]

strings == <<"G", "C", "E", "A">>
PrefixLen == 3

\* The row of string i (1..4) of render_range
StringRow(c, i, start, end) ==
    LET fv  == c.frets[i]
        ind == IF fv = Some(0) THEN "O" ELSE IF fv = None THEN "X" ELSE " "
    IN  RowLine(strings[i], ind, FretRange(start, end),
                {k \in 1..FretRange(start, end).count : fv = Some(start + k - 1)})

\* The u8 expression end_fret - start_fret + 1 of render_range
ColumnCount(start, end) ==
    LET d == U8Sub(end, start)
        n == U8Add(d[2], 1)
    IN  <<d[1] \/ n[1], n[2]>>

\* Chord::render_range: [panic |-> TRUE] where an overflow check fails,
\* else the rendered lines
render_range(c, start, end, checks) ==
    LET cols == ColumnCount(start, end) IN
    IF checks /\ cols[1] THEN [panic |-> TRUE, lines |-> <<>>]
    ELSE [panic |-> FALSE,
          lines |-> << TextLine("Chord: ", c.name),
                       HeaderLine(FretRange(start, end)),
                       DividerLine(PrefixLen + cols[2] * 3),
                       StringRow(c, 4, start, end),
                       StringRow(c, 3, start, end),
                       StringRow(c, 2, start, end),
                       StringRow(c, 1, start, end) >>]

----------------------------------------------------------------------------
(* App: src/src/tui.rs *)

InitialMessage == <<TextLine("Type comma separated chords and press Enter.", <<>>)>>
PleaseEnter == <<TextLine("Please enter one or more chords, separated by commas", <<>>)>>
NotFound(key) == <<TextLine("Chord not found: ", key)>>

\* self.chords.iter().find(|c| c.matches_name(&key)): Some(position of the
\* first chord that matches), or None
RECURSIVE FindFrom(_, _, _)
FindFrom(cs, key, i) ==
    IF i > Len(cs) THEN None
    ELSE IF matches_name(cs[i], key) THEN Some(i)
    ELSE FindFrom(cs, key, i + 1)
find(cs, key) == FindFrom(cs, key, 1)

\* the keys of raw.split(','): each entry trimmed, the empty ones skipped
QueryKeys(raw) ==
    LET pieces == Split(raw, ",") IN
    SelectSeq([i \in 1..Len(pieces) |-> Trim(pieces[i])], LAMBDA k : k # <<>>)

\* the first loop of lookup: the not-found messages it pushes, and selected
MissDiagrams(cs, keys) ==
    LET misses == SelectSeq(keys, LAMBDA k : ~IsSome(find(cs, k))) IN
    [i \in 1..Len(misses) |-> NotFound(misses[i])]
Selected(cs, keys) ==
    LET hits == SelectSeq(keys, LAMBDA k : IsSome(find(cs, k))) IN
    [i \in 1..Len(hits) |-> [key |-> hits[i], chord |-> cs[Unwrap(find(cs, hits[i]))]]]

\* the second loop of lookup: gmin, gmax and has_open over selected
RECURSIVE GlobalRange(_, _)
GlobalRange(sel, acc) ==
    IF sel = <<>> THEN acc
    ELSE LET c == Head(sel).chord
             b == fret_bounds(c)
         IN  GlobalRange(Tail(sel),
                 [gmin |-> IF IsSome(b) THEN Min(acc.gmin, Unwrap(b)[1]) ELSE acc.gmin,
                  gmax |-> IF IsSome(b) THEN Max(acc.gmax, Unwrap(b)[2]) ELSE acc.gmax,
                  has_open |-> acc.has_open \/ \E i \in 1..4 : c.frets[i] = Some(0)])

WindowStartNoOpen(g) == IF g.gmin < 2 THEN 1 ELSE g.gmin
WindowStart(g) == IF g.has_open \/ g.gmin < 2 THEN 1 ELSE g.gmin

\* a window that always ends at start + 4
WindowFiveWide(sel) ==
    LET g     == GlobalRange(sel, [gmin |-> U8_MAX, gmax |-> 0, has_open |-> FALSE])
        start == WindowStart(g)
        sum   == U8Add(start, 4)
    IN  [start |-> start, overflow |-> sum[1], end |-> sum[2]]

\* the window of lookup: start, the u8 sum start + 4 and end
Window(sel) ==
    LET g     == GlobalRange(sel, [gmin |-> U8_MAX, gmax |-> 0, has_open |-> FALSE])
        start == WindowStart(g)
        sum   == U8Add(start, 4)
    IN  [start |-> start, overflow |-> sum[1], end |-> Max(g.gmax, sum[2])]

\* the title of a rendered diagram replaced by the typed key: the text from
\* the first newline on, that newline included, is put after "Chord: key\n"
Retitle(lines, key) == <<TextLine("Chord: ", key), EmptyLine>> \o Tail(lines)

\* the third loop of lookup: the diagrams pushed until a render panics
RECURSIVE RenderSelected(_, _, _, _)
RenderSelected(sel, start, end, checks) ==
    IF sel = <<>> THEN [panic |-> FALSE, diagrams |-> <<>>]
    ELSE LET r == render_range(Head(sel).chord, start, end, checks) IN
         IF r.panic THEN [panic |-> TRUE, diagrams |-> <<>>]
         ELSE LET rest == RenderSelected(Tail(sel), start, end, checks) IN
              [panic |-> rest.panic,
               diagrams |-> <<Retitle(r.lines, Head(sel).key)>> \o rest.diagrams]

\* App::lookup: the diagrams it leaves, and whether it panicked on the way
lookup(cs, in, checks) ==
    LET raw == Trim(in) IN
    IF raw = <<>> THEN [panic |-> FALSE, diagrams |-> <<PleaseEnter>>]
    ELSE LET keys   == QueryKeys(raw)
             misses == MissDiagrams(cs, keys)
             sel    == Selected(cs, keys)
         IN  IF sel = <<>> THEN [panic |-> FALSE, diagrams |-> misses]
             ELSE LET w == Window(sel) IN
                  IF checks /\ w.overflow THEN [panic |-> TRUE, diagrams |-> misses]
                  ELSE LET r == RenderSelected(sel, w.start, w.end, checks) IN
                       [panic |-> r.panic, diagrams |-> misses \o r.diagrams]

----------------------------------------------------------------------------
(* combine_diagrams_grid: src/src/tui.rs. A block is the sequence of the  *)
(* display widths of its lines.                                            *)

RECURSIVE SeqMax(_)
SeqMax(q) == IF q = <<>> THEN 0 ELSE Max(Head(q), SeqMax(Tail(q)))

\* step 1: the display width and the height of each block
BlockWidths(blocks) == [i \in 1..Len(blocks) |-> SeqMax(blocks[i])]
BlockHeights(blocks) == [i \in 1..Len(blocks) |-> Len(blocks[i])]

\* step 2: the width the row needs with block w added, and the test that
\* closes the row
NeededNoSpacing(cur, used_w, spacing, w) == IF cur = <<>> THEN w ELSE used_w + w
Needed(cur, used_w, spacing, w) == IF cur = <<>> THEN w ELSE used_w + spacing + w
ClosesRowAtLimit(cur, needed, max_width) == needed >= max_width /\ cur # <<>>
ClosesRow(cur, needed, max_width) == needed > max_width /\ cur # <<>>

\* step 2: the loop over the blocks, from block i on, and the push of the
\* last row
RECURSIVE PackFrom(_, _, _, _, _, _, _)
PackFrom(widths, max_width, spacing, i, rows, cur, used_w) ==
    IF i > Len(widths) THEN (IF cur # <<>> THEN Append(rows, cur) ELSE rows)
    ELSE LET w      == widths[i]
             needed == Needed(cur, used_w, spacing, w)
         IN  IF ClosesRow(cur, needed, max_width)
             THEN PackFrom(widths, max_width, spacing, i + 1, Append(rows, cur), <<i>>, w)
             ELSE PackFrom(widths, max_width, spacing, i + 1, rows, Append(cur, i),
                           IF cur = <<>> THEN w ELSE used_w + spacing + w)
PackRows(widths, max_width, spacing) ==
    PackFrom(widths, max_width, spacing, 1, <<>>, <<>>, 0)

\* step 3: the lines of one row. A line is the sequence of its cells, a
\* cell the display width of its text, its padding and the gap after it;
\* the separator line that ends the row has no cell.
\* a cell with no padding at all
CellPadNone(width, disp) == 0

\* pad: the spaces after a cell of display width disp in a block of width
\* width, a saturating subtraction
CellPad(width, disp) == Max(width - disp, 0)

RowLines(blocks, row, spacing) ==
    LET widths == BlockWidths(blocks)
        row_h  == SeqMax([j \in 1..Len(row) |-> BlockHeights(blocks)[row[j]]])
    IN  [l \in 1..row_h |->
            [j \in 1..Len(row) |->
                LET block == blocks[row[j]]
                    disp  == IF l <= Len(block) THEN block[l] ELSE 0
                IN  [text |-> disp,
                     pad  |-> CellPad(widths[row[j]], disp),
                     gap  |-> IF j + 1 <= Len(row) THEN spacing ELSE 0]]]
        \o << <<>> >>

RECURSIVE GridLines(_, _, _)
GridLines(blocks, rows, spacing) ==
    IF rows = <<>> THEN <<>>
    ELSE RowLines(blocks, Head(rows), spacing) \o GridLines(blocks, Tail(rows), spacing)

\* combine_diagrams_grid: the rows of block indices and the lines put out
combine_diagrams_grid(blocks, max_width, spacing) ==
    LET rows == PackRows(BlockWidths(blocks), max_width, spacing) IN
    [rows |-> rows, out |-> GridLines(blocks, rows, spacing)]

----------------------------------------------------------------------------
(* The definition lines the parser is run on *)

MaxQuality == 2

QualityChars == {"m", "b", "#", "7"}
Qualities == UNION {[1..n -> QualityChars] : n \in 0..MaxQuality}

\* every root token followed by every quality
RootedNames == {roots[k] \o q : k \in 1..Len(roots), q \in Qualities}
\* names no root token starts
UnrootedNames == {<<>>, <<"H">>, <<"c">>, <<"#","C">>, <<"x","A">>}
FewNames == {<<"C","#","d","i","m">>, <<"H">>}

FretTokens == {<<"0">>, <<"3">>, <<"X">>, <<"x">>, <<"1","2">>, <<"0","0","7">>,
               <<"2","5","5">>, <<"2","5","6">>, <<"+","3">>, <<"-","1">>, <<"z">>}
FewFretTokens == {<<"0">>, <<"X">>, <<"z">>}
FewTokenLists == {<<>>, << <<"0">>, <<"0">>, <<"0">>, <<"3">> >>,
                  << <<"0">>, <<"1">>, <<"0">>, <<"4">> >>}

\* the text of a definition line: name, '=', the tokens, with the given
\* whitespace around the name and between the tokens
RECURSIVE JoinTokens(_, _)
JoinTokens(toks, gap) ==
    IF toks = <<>> THEN <<>>
    ELSE IF Len(toks) = 1 THEN Head(toks)
    ELSE Head(toks) \o gap \o JoinTokens(Tail(toks), gap)
DefinitionLine(name, toks, pad, gap) ==
    pad \o name \o pad \o <<"=">> \o pad \o JoinTokens(toks, gap) \o pad

Pads == {<<>>, <<" ">>}
Gaps == {<<" ">>, <<" ", "\t">>}
OtherLines == {<<>>, <<" ">>, <<"#", " ", "C", "=", "0", " ", "0", " ", "0", " ", "3">>,
               <<"C", " ", "0", " ", "0", " ", "0", " ", "3">>}

IdleApp ==
    /\ chords = <<>> /\ input = <<>> /\ diagrams = <<>> /\ status = "idle"
IdleLookup == lk_catalog = <<>> /\ lk_input = <<>> /\ lk_found = <<>>
IdleGrid ==
    /\ g_blocks = <<>> /\ g_max_width = 0 /\ g_spacing = 0 /\ g_rows = None
IdleRender == r_chord = <<>> /\ r_start = 0 /\ r_end = 0 /\ r_out = None

IdleParse ==
    /\ line_name = <<>> /\ line_tokens = <<>> /\ line = <<>>
    /\ entry = None /\ parse_pc = "idle"

InitParse ==
    /\ \/ /\ line_name \in RootedNames \cup UnrootedNames
          /\ line_tokens \in FewTokenLists
          /\ \E pad \in Pads :
                line = DefinitionLine(line_name, line_tokens, pad, <<" ">>)
       \/ /\ line_name \in FewNames
          /\ \/ /\ line_tokens \in [1..4 -> FretTokens]
                /\ line = DefinitionLine(line_name, line_tokens, <<" ">>, <<" ">>)
             \/ /\ line_tokens \in [1..3 -> FewFretTokens] \cup [1..4 -> FewFretTokens]
                                    \cup [1..5 -> FewFretTokens]
                /\ \E gap \in Gaps :
                      line = DefinitionLine(line_name, line_tokens, <<>>, gap)
       \/ /\ line_name = <<>> /\ line_tokens = <<>>
          /\ line \in OtherLines
    /\ entry = None
    /\ parse_pc = "read"
    /\ overflow_checks = FALSE
    /\ IdleApp /\ IdleLookup /\ IdleGrid /\ IdleRender

\* the filter_map closure of load_from_file on the line read
ParseLine ==
    /\ parse_pc = "read"
    /\ entry' = LoadLine(line)
    /\ parse_pc' = "done"
    /\ UNCHANGED <<line_name, line_tokens, line>>
    /\ UNCHANGED <<overflow_checks, app_vars, lookup_vars, grid_vars, render_vars>>

NextParse == ParseLine
SpecParse == InitParse /\ [][NextParse]_vars

----------------------------------------------------------------------------
(* Claims about the parser, checked under SpecParse *)

IsMuteToken(tok) == tok \in {<<"X">>, <<"x">>}
UnsignedPart(tok) == IF tok # <<>> /\ Head(tok) = "+" THEN Tail(tok) ELSE tok
IsNonNegInteger(tok) ==
    /\ UnsignedPart(tok) # <<>>
    /\ \A i \in 1..Len(UnsignedPart(tok)) : IndexIn(UnsignedPart(tok)[i], Digits) > 0
RECURSIVE DecimalValue(_, _)
DecimalValue(ds, acc) ==
    IF ds = <<>> THEN acc
    ELSE DecimalValue(Tail(ds), acc * 10 + IndexIn(Head(ds), Digits) - 1)
IntegerValue(tok) == DecimalValue(UnsignedPart(tok), 0)
StartsWithRoot(name) == \E k \in 1..Len(roots) : StartsWith(name, roots[k])

\* C6: a definition of four fret tokens, one of them neither X/x nor a
\* non-negative integer, is rejected by from_string and dropped by the load;
\* it never becomes a chord with that token recorded as muted.
C6_InvalidTokenRejectsLine ==
    ( /\ parse_pc = "done"
      /\ Len(line_tokens) = 4
      /\ \E i \in 1..4 : ~IsMuteToken(line_tokens[i]) /\ ~IsNonNegInteger(line_tokens[i]) )
    => entry = None

\* C7: a well-formed definition line parses to a chord whose name is the
\* text before '=', trimmed, and whose frets are absent exactly for X/x and
\* otherwise the integer value of the token, whatever its magnitude.
C7_ParsedMatchesTokens ==
    ( /\ parse_pc = "done"
      /\ Len(line_tokens) = 4
      /\ StartsWithRoot(line_name)
      /\ \A i \in 1..4 : IsMuteToken(line_tokens[i]) \/ IsNonNegInteger(line_tokens[i]) )
    => /\ IsSome(entry)
       /\ Unwrap(entry).name = line_name
       /\ \A i \in 1..4 :
             Unwrap(entry).frets[i] =
                 IF IsMuteToken(line_tokens[i]) THEN None
                 ELSE Some(IntegerValue(line_tokens[i]))

EnharmonicPairs == { << <<"C","#">>, <<"D","b">> >>, << <<"D","#">>, <<"E","b">> >>,
                     << <<"F","#">>, <<"G","b">> >>, << <<"G","#">>, <<"A","b">> >>,
                     << <<"A","#">>, <<"B","b">> >> }
AccidentalRoots == {p[1] : p \in EnharmonicPairs} \cup {p[2] : p \in EnharmonicPairs}
NaturalRoots == {<<"A">>, <<"B">>, <<"C">>, <<"D">>, <<"E">>, <<"F">>, <<"G">>}
Partner(r) ==
    IF \E p \in EnharmonicPairs : p[1] = r
    THEN (CHOOSE p \in EnharmonicPairs : p[1] = r)[2]
    ELSE (CHOOSE p \in EnharmonicPairs : p[2] = r)[1]
AliasesOf(name) ==
    Unwrap(from_string(name, <<"0", " ", "0", " ", "0", " ", "0">>)).alias_names

\* C8: a parsed chord whose root is accidental has exactly one alias, the
\* enharmonic partner root followed by the unchanged quality, and the alias
\* of that alias is the name again; a chord whose root is a natural letter
\* has no alias. A two-character root wins over its first letter, and root
\* followed by quality is the name.
C8_AliasSymmetry ==
    (parse_pc = "done" /\ IsSome(entry)) =>
        LET c    == Unwrap(entry)
            rq   == Unwrap(split_name(c.name))
            root == rq[1]
            qual == rq[2]
        IN  /\ root \o qual = c.name
            /\ root \in AccidentalRoots \cup NaturalRoots
            /\ (Len(c.name) >= 2 /\ SubSeq(c.name, 1, 2) \in AccidentalRoots)
                   => root = SubSeq(c.name, 1, 2)
            /\ root \in AccidentalRoots =>
                   /\ c.alias_names = << Partner(root) \o qual >>
                   /\ AliasesOf(Partner(root) \o qual) = << c.name >>
            /\ root \in NaturalRoots => c.alias_names = <<>>

C8_Witness ==
    /\ parse_pc = "done" /\ IsSome(entry)
    /\ Unwrap(entry).name = <<"A","b","m","7">>
    /\ Unwrap(entry).alias_names = << <<"G","#","m","7">> >>

----------------------------------------------------------------------------
(* Chord::render_range on a chord and a window of its own *)

MaxEdge == 2

\* the fret numbers near both ends of u8
EdgeFrets == (0..MaxEdge) \cup ((U8_MAX - MaxEdge)..U8_MAX)
FretChoices == {None, Some(0), Some(1), Some(U8_MAX)}

InitRender ==
    /\ overflow_checks \in BOOLEAN
    /\ \E fs \in [1..4 -> FretChoices] :
          r_chord = [name |-> <<"C">>, frets |-> fs, alias_names |-> <<>>]
    /\ r_start \in EdgeFrets
    /\ r_end \in EdgeFrets
    /\ r_out = None
    /\ IdleParse /\ IdleApp /\ IdleLookup /\ IdleGrid

Render ==
    /\ r_out = None
    /\ r_out' = Some(render_range(r_chord, r_start, r_end, overflow_checks))
    /\ UNCHANGED <<r_chord, r_start, r_end>>
    /\ UNCHANGED <<overflow_checks, parse_vars, app_vars, lookup_vars, grid_vars>>

NextRender == Render
SpecRender == InitRender /\ [][NextRender]_vars

\* C9: render_range completes, without a panic or an overflow, for every
\* chord and every window 0 <= start <= end <= 255, the window 0..255 of
\* 256 columns included, and its divider has 3 + 3 * (end - start + 1) dashes.
C9_RenderNeverOverflows ==
    (IsSome(r_out) /\ r_start <= r_end) =>
        /\ ~Unwrap(r_out).panic
        /\ Unwrap(r_out).lines[3] = DividerLine(3 + 3 * (r_end - r_start + 1))

\* the four string rows of the lines render_range put out, as C11 has them:
\* A, E, C, G from the top, the indicator O for fret 0, X for a muted
\* string and blank otherwise, one cell per fret of start..end, and the
\* marker in the cell of fret f exactly when the string is fretted at f
RowsAsClaimed(lines, c, start, end) ==
    /\ Len(lines) = 7
    /\ \A r \in 1..4 :
          LET row == lines[3 + r]
              fv  == c.frets[5 - r]
          IN  /\ row.kind = "row"
              /\ row.string = <<"A", "E", "C", "G">>[r]
              /\ (row.ind = "O") <=> (fv = Some(0))
              /\ (row.ind = "X") <=> (fv = None)
              /\ (row.ind = " ") <=> (IsSome(fv) /\ Unwrap(fv) # 0)
              /\ row.cells = [first |-> start, count |-> end - start + 1]
              /\ row.marked \subseteq 1..(end - start + 1)
              /\ \A f \in start..end : ((f - start + 1) \in row.marked) <=> (fv = Some(f))
              /\ Cardinality(row.marked) <= 1
              /\ ( \/ fv = None
                   \/ (fv = Some(0) /\ start >= 1)
                   \/ (IsSome(fv) /\ (Unwrap(fv) < start \/ Unwrap(fv) > end)) )
                 => row.marked = {}

\* C11: for every chord and every window start..end, render_range emits the
\* rows of the strings A, E, C, G in that order, each with the indicator O
\* exactly for fret 0 and X exactly for a muted string, and with one cell
\* per fret of the window, marked exactly at the fret of the string.
C11_RowsOfEveryWindow ==
    (IsSome(r_out) /\ r_start <= r_end) =>
        /\ ~Unwrap(r_out).panic
        /\ RowsAsClaimed(Unwrap(r_out).lines, r_chord, r_start, r_end)

\* The rows are as C11 has them whenever render_range returns: the windows
\* where C11 fails are those where render_range panics.
C11_RowsWhenRendered ==
    (IsSome(r_out) /\ r_start <= r_end /\ ~Unwrap(r_out).panic) =>
        RowsAsClaimed(Unwrap(r_out).lines, r_chord, r_start, r_end)

----------------------------------------------------------------------------
(* The TUI: a catalog loaded from a file, keys typed, Enter looking up *)

MaxInput == 3

InputChars == {"a", "B", ","}

T0 == <<"0">>
TX == <<"X">>
ShapesA == { <<T0, T0, T0, <<"3">> >>,
             <<TX, TX, TX, TX>>,
             << <<"5">>, <<"7">>, <<"x">>, <<"5">> >>,
             << <<"2","5","2">>, <<"2","5","5">>, TX, <<"2","5","2">> >> }
\* the line of the three-token shape is dropped by the load
ShapesB == { << <<"1">>, <<"9">>, TX, TX>>,
             << <<"2","5","1">>, TX, TX, <<"2","5","1">> >>,
             <<T0, T0, T0>> }

\* chords.txt: a comment, a blank line, the definitions of A and of B and a
\* second definition of A, which comes after the first
ChordFiles ==
    { << <<"#", " ", "u", "k", "e">>,
         DefinitionLine(<<"A">>, a, <<" ">>, <<" ">>),
         <<>>,
         DefinitionLine(<<"B">>, b, <<>>, <<" ">>),
         DefinitionLine(<<"A">>, <<T0, T0, T0, T0>>, <<>>, <<" ">>) >>
      : a \in ShapesA, b \in ShapesB }

InitApp ==
    /\ overflow_checks \in BOOLEAN
    /\ \E f \in ChordFiles : chords = load_from_file(f)
    /\ input = <<>>
    /\ diagrams = <<InitialMessage>>
    /\ status = "running"
    /\ IdleParse /\ IdleLookup /\ IdleGrid /\ IdleRender

Idle == UNCHANGED <<overflow_checks, parse_vars, lookup_vars, grid_vars, render_vars>>

\* KeyCode::Char(c) of the key loop: app.input.push(c)
KeyChar ==
    /\ status = "running"
    /\ Len(input) < MaxInput
    /\ \E c \in InputChars : input' = Append(input, c)
    /\ UNCHANGED <<chords, diagrams, status>>
    /\ Idle

\* KeyCode::Backspace of the key loop: app.input.pop()
KeyBackspace ==
    /\ status = "running"
    /\ input' = IF input = <<>> THEN input ELSE SubSeq(input, 1, Len(input) - 1)
    /\ UNCHANGED <<chords, diagrams, status>>
    /\ Idle

\* KeyCode::Enter of the key loop: app.lookup(). A panic ends the program
\* with the fields as lookup had left them.
KeyEnter ==
    /\ status = "running"
    /\ LET r == lookup(chords, input, overflow_checks) IN
          /\ diagrams' = r.diagrams
          /\ input' = IF r.panic THEN input ELSE <<>>
          /\ status' = IF r.panic THEN "panicked" ELSE status
    /\ UNCHANGED chords
    /\ Idle

Next == KeyChar \/ KeyBackspace \/ KeyEnter
Spec == InitApp /\ [][Next]_vars

----------------------------------------------------------------------------
(* Claims about the lookup of the TUI, checked under Spec *)

\* the chords the query in the input line matches, in typed order
Batch == Selected(chords, QueryKeys(Trim(input)))
BatchFretted(batch) == UNION {FrettedValues(batch[i].chord) : i \in 1..Len(batch)}
BatchHasOpen(batch) ==
    \E i \in 1..Len(batch) : \E j \in 1..4 : batch[i].chord.frets[j] = Some(0)
ClaimedStart(hasOpen, fretted) ==
    IF hasOpen \/ SetMin(fretted) < 2 THEN 1 ELSE SetMin(fretted)
ClaimedEnd(start, fretted) == Max(SetMax(fretted), start + 4)

\* a step of the key loop that is a lookup: it clears the input line, or
\* it panics
LookupStep == (input' = <<>> \/ status' = "panicked") /\ KeyEnter

\* a diagram render_range made and lookup retitled: its title, an empty
\* line, the header, the divider and the four string rows
IsRendered(d) == Len(d) = 8 /\ d[3].kind = "header"
Rendered(ds) == SelectSeq(ds, IsRendered)

\* C2: for a batch with a fretted string and start + 4 within 8 bits, every
\* diagram of the lookup shows the frets start..end, where start is 1 if
\* a chord of the batch has an open string or the least fretted value of
\* the batch is below 2, and that least value otherwise, and end is the
\* larger of the greatest fretted value and start + 4.
C2_SharedWindow ==
    [][ LookupStep =>
          LET batch   == Batch
              fretted == BatchFretted(batch)
              start   == ClaimedStart(BatchHasOpen(batch), fretted)
              end     == ClaimedEnd(start, fretted)
              shown   == Rendered(diagrams')
          IN  (batch # <<>> /\ fretted # {} /\ start + 4 <= U8_MAX)
              => /\ status' = "running"
                 /\ Len(shown) = Len(batch)
                 /\ \A i \in 1..Len(shown) : shown[i][3] = HeaderLine(FretRange(start, end))
      ]_vars

C2_Witness ==
    /\ Len(Rendered(diagrams)) = 2
    /\ diagrams[1][1] = TextLine("Chord: ", <<"a">>)
    /\ diagrams[2][1] = TextLine("Chord: ", <<"B">>)
    /\ diagrams[1][3] = HeaderLine([first |-> 5, count |-> 247])

\* C3: whatever the batch, all-muted batches and frets up to 255 included,
\* the lookup computes its window without overflow and every diagram
\* shows at least 5 fret columns (start <= end, end - start >= 4).
C3_WindowSpansFive ==
    /\ status # "panicked"
    /\ \A i \in 1..Len(Rendered(diagrams)) : Rendered(diagrams)[i][3].frets.count >= 5

\* C13: in every diagram a lookup produces, whatever the catalog and the
\* query, the window all the diagrams share contains every fretted value
\* of the diagram's chord (start <= n <= end for each string fretted at
\* n >= 1), and the row of each fretted string has exactly one marker, in
\* the column of fret n.
C13_FrettedNotesInWindow ==
    [][ LookupStep =>
          LET batch == Batch
              shown == Rendered(diagrams')
          IN  /\ Len(shown) <= Len(batch)
              /\ \A i \in 1..Len(shown) :
                    LET d     == shown[i]
                        first == d[3].frets.first
                        count == d[3].frets.count
                    IN  /\ d[1] = TextLine("Chord: ", batch[i].key)
                        /\ d[3] = shown[1][3]
                        /\ \A j \in 1..4 :
                              LET fv  == batch[i].chord.frets[j]
                                  row == d[9 - j]
                              IN  (IsSome(fv) /\ Unwrap(fv) >= 1) =>
                                     /\ first <= Unwrap(fv)
                                     /\ Unwrap(fv) <= first + count - 1
                                     /\ row.kind = "row"
                                     /\ row.string = strings[j]
                                     /\ row.cells = d[3].frets
                                     /\ row.marked = {Unwrap(fv) - first + 1}
      ]_vars

\* the chord 1 9 X X looked up alone: the window 1..9 reaches past
\* start + 4 to show fret 9 of the C string
C13_Witness ==
    /\ status = "running"
    /\ Len(diagrams) = 1 /\ IsRendered(diagrams[1])
    /\ diagrams[1][1] = TextLine("Chord: ", <<"B">>)
    /\ diagrams[1][3] = HeaderLine([first |-> 1, count |-> 9])
    /\ diagrams[1][7].string = "C" /\ diagrams[1][7].marked = {9}
    /\ diagrams[1][8].string = "G" /\ diagrams[1][8].marked = {1}

\* C10: a lookup that completes leaves one entry per term of the query, the i-th entry
\* for the i-th term: the diagram titled with the term, with the rows of
\* the matched chord, or the not-found message of the term.
C10_ResultsInTypedOrder ==
    [][ (LookupStep /\ status' = "running" /\ Trim(input) # <<>>) =>
          LET keys == QueryKeys(Trim(input)) IN
          /\ Len(diagrams') = Len(keys)
          /\ \A i \in 1..Len(keys) :
                IF IsSome(find(chords, keys[i]))
                THEN /\ IsRendered(diagrams'[i])
                     /\ diagrams'[i][1] = TextLine("Chord: ", keys[i])
                     /\ \A r \in 1..4 :
                           diagrams'[i][4 + r].ind =
                               StringRow(chords[Unwrap(find(chords, keys[i]))],
                                         5 - r, 1, 1).ind
                ELSE diagrams'[i] = NotFound(keys[i])
      ]_vars

----------------------------------------------------------------------------
(* The find of App::lookup on a catalog and a key of its own *)

MaxCatalog == 2
MaxKey == 2

LkNames == {<<"C","#">>, <<"D","b">>, <<"C","m">>, <<"C","M">>, <<"C","e'">>}
LkChars == {"C", "c", "d", "#", "b", "m", "M", "e'", "E'"}

InitLookup ==
    /\ \E n \in 0..MaxCatalog : \E names \in [1..n -> LkNames] :
          lk_catalog = load_from_file(
              [i \in 1..n |-> DefinitionLine(names[i], <<T0, T0, T0, <<"3">> >>, <<" ">>, <<" ">>)])
    /\ lk_input \in UNION {[1..n -> LkChars] : n \in 0..MaxKey}
    /\ lk_found = <<>>
    /\ overflow_checks = FALSE
    /\ IdleParse /\ IdleApp /\ IdleGrid /\ IdleRender

AsciiUppercase(s) == [i \in 1..Len(s) |-> ToAsciiUppercase(s[i])]
AsciiLowercase(s) == [i \in 1..Len(s) |-> ToAsciiLowercase(s[i])]

\* the find on the key as typed and on its upper- and lower-cased forms
FindForms ==
    /\ lk_found = <<>>
    /\ lk_found' = << [typed |-> find(lk_catalog, lk_input),
                       upper |-> find(lk_catalog, ToUppercase(lk_input)),
                       lower |-> find(lk_catalog, ToLowercase(lk_input)),
                       ascii_upper |-> find(lk_catalog, AsciiUppercase(lk_input)),
                       ascii_lower |-> find(lk_catalog, AsciiLowercase(lk_input))] >>
    /\ UNCHANGED <<lk_catalog, lk_input>>
    /\ UNCHANGED <<overflow_checks, parse_vars, app_vars, grid_vars, render_vars>>

NextLookup == FindForms
SpecLookup == InitLookup /\ [][NextLookup]_vars

\* the first entry, in catalog order, whose name or alias is the key once
\* both are folded by fold
FoldedMatch(c, key, fold(_)) ==
    \/ fold(c.name) = fold(key)
    \/ \E k \in 1..Len(c.alias_names) : fold(c.alias_names[k]) = fold(key)
FirstMatch(cs, key, fold(_)) ==
    LET hits == {i \in 1..Len(cs) : FoldedMatch(cs[i], key, fold)} IN
    IF hits = {} THEN None ELSE Some(SetMin(hits))

----------------------------------------------------------------------------
(* combine_diagrams_grid on blocks, a width and a spacing of its own *)

MaxBlocks == 3
MaxGridWidth == 6
MaxSpacing == 2

BlockShapes == {<<>>, <<0>>, <<1>>, <<2, 1>>, <<3>>, <<1, 4, 2>>}

InitGrid ==
    /\ g_blocks \in UNION {[1..n -> BlockShapes] : n \in 0..MaxBlocks}
    /\ g_max_width \in 0..MaxGridWidth
    /\ g_spacing \in 0..MaxSpacing
    /\ g_rows = None
    /\ overflow_checks = FALSE
    /\ IdleParse /\ IdleApp /\ IdleLookup /\ IdleRender

Combine ==
    /\ g_rows = None
    /\ g_rows' = Some(combine_diagrams_grid(g_blocks, g_max_width, g_spacing))
    /\ UNCHANGED <<g_blocks, g_max_width, g_spacing>>
    /\ UNCHANGED <<overflow_checks, parse_vars, app_vars, lookup_vars, render_vars>>

NextGrid == Combine
SpecGrid == InitGrid /\ [][NextGrid]_vars

RECURSIVE SeqSum(_)
SeqSum(q) == IF q = <<>> THEN 0 ELSE Head(q) + SeqSum(Tail(q))
RECURSIVE Flatten(_)
Flatten(qs) == IF qs = <<>> THEN <<>> ELSE Head(qs) \o Flatten(Tail(qs))

PackedRows == Unwrap(g_rows).rows
\* the width of blocks row[1..k] laid side by side
RowWidth(row, k) ==
    SeqSum([j \in 1..k |-> BlockWidths(g_blocks)[row[j]]]) + g_spacing * (k - 1)

\* C4: a row of two or more blocks is at most max_width wide, the spacing
\* between its blocks counted; only a row of one block may be wider.
C4_RowWidthBound ==
    IsSome(g_rows) =>
        \A r \in 1..Len(PackedRows) :
            Len(PackedRows[r]) >= 2 => RowWidth(PackedRows[r], Len(PackedRows[r])) <= g_max_width

C4_Witness ==
    /\ IsSome(g_rows)
    /\ g_max_width = 6 /\ g_spacing = 2
    /\ BlockWidths(g_blocks) = <<2, 2, 3>>
    /\ PackedRows = << <<1, 2>>, <<3>> >>

\* C5: the rows are the blocks, in input order, cut into non-empty runs,
\* and block i + 1 is in the row of block i exactly when that row's width
\* up to block i, plus the spacing and the width of block i + 1, is within
\* max_width.
C5_RowsPartitionInOrder ==
    IsSome(g_rows) =>
        /\ Flatten(PackedRows) = [i \in 1..Len(g_blocks) |-> i]
        /\ \A r \in 1..Len(PackedRows) : PackedRows[r] # <<>>
        /\ \A r \in 1..Len(PackedRows) : \A k \in 1..Len(PackedRows[r]) :
              LET next == PackedRows[r][k] + 1 IN
              next <= Len(g_blocks) =>
                  ( (k < Len(PackedRows[r]))
                    <=> (RowWidth(PackedRows[r], k) + g_spacing + BlockWidths(g_blocks)[next]
                            <= g_max_width) )

C5_Witness ==
    /\ IsSome(g_rows)
    /\ g_max_width = 4 /\ g_spacing = 1
    /\ BlockWidths(g_blocks) = <<4, 1, 2>>
    /\ PackedRows = << <<1>>, <<2, 3>> >>

\* the display width of a line put out: its cells, their padding and the
\* spacing after them
LineWidth(ln) == SeqSum([j \in 1..Len(ln) |-> ln[j].text + ln[j].pad + ln[j].gap])

\* C12: each packed row of k blocks puts out exactly H lines, H the largest
\* line count among its blocks; each of these lines has one cell per block,
\* every cell (the empty cells of shorter blocks too) padded to the width of
\* its block, so the line is as wide as the k block widths plus
\* spacing * (k - 1); and one empty line follows the H lines of every row,
\* the last row included.
C12_RowLinesPaddedAndSeparated ==
    IsSome(g_rows) =>
        LET rows    == Unwrap(g_rows).rows
            out     == Unwrap(g_rows).out
            widths  == BlockWidths(g_blocks)
            heights == BlockHeights(g_blocks)
            H   == [r \in 1..Len(rows) |->
                        SeqMax([j \in 1..Len(rows[r]) |-> heights[rows[r][j]]])]
            off == [r \in 1..Len(rows) |-> SeqSum([q \in 1..(r - 1) |-> H[q] + 1])]
        IN  /\ Len(out) = SeqSum([r \in 1..Len(rows) |-> H[r] + 1])
            /\ \A r \in 1..Len(rows) :
                  /\ \A l \in 1..H[r] :
                        LET ln == out[off[r] + l] IN
                        /\ Len(ln) = Len(rows[r])
                        /\ \A j \in 1..Len(ln) : ln[j].text + ln[j].pad = widths[rows[r][j]]
                        /\ LineWidth(ln) = RowWidth(rows[r], Len(rows[r]))
                  /\ out[off[r] + H[r] + 1] = <<>>

\* two blocks of different heights side by side, then a second row: the
\* shorter block's missing line is an empty cell padded to its width
C12_Witness ==
    /\ IsSome(g_rows)
    /\ g_max_width = 6 /\ g_spacing = 2
    /\ g_blocks = << <<1>>, <<2, 1>>, <<3>> >>
    /\ Unwrap(g_rows).rows = << <<1, 2>>, <<3>> >>
    /\ Len(Unwrap(g_rows).out) = 5
    /\ Unwrap(g_rows).out[2][1] = [text |-> 0, pad |-> 1, gap |-> 2]
    /\ Unwrap(g_rows).out[3] = <<>>
    /\ Unwrap(g_rows).out[5] = <<>>

====
